---- MODULE Spec2Model ----
(***************************************************************************)
(* Model of export_ism_report_to_excel.py: the sentence classifier         *)
(* (get_list_of_industries_from_sentence), the paragraph processor         *)
(* (process_paragraph, create_dict_of_industries) and the segmentation     *)
(* loop of the main script.  Texts are TLA+ strings; the Python string     *)
(* built-ins the script uses (in, split, replace, strip, negative          *)
(* indexing) are modelled character by character.                          *)
(***************************************************************************)
EXTENDS Integers, Sequences, FiniteSets, TLC

VARIABLES
    pc,                        \* position of the control flow
    sentence,                  \* argument of get_list_of_industries_from_sentence
    list_industries,           \* its return value
    para_text,                 \* argument of process_paragraph
    list_industries_growth,    \* process_paragraph locals
    list_industries_decrease,
    list_industries_neutral,
    processed_paragraph,       \* IndicatorReport returned by process_paragraph
    text,                      \* extracted text of the whole document
    previous_text,             \* main: list whose element [1] is the cursor
    i,                         \* main: loop variable
    paragraph,                 \* main: paragraph isolated at iteration i
    industries_dict,           \* main: the FullReport accumulator
    workbook                   \* sheet names written by export_dict_to_excel

vars == <<pc, sentence, list_industries, para_text, list_industries_growth,
          list_industries_decrease, list_industries_neutral,
          processed_paragraph, text, previous_text, i, paragraph,
          industries_dict, workbook>>

-----------------------------------------------------------------------------
(* Bounds of the explored inputs *)

MaxPieces == 4      \* pieces concatenated into a classifier input
MaxNames == 2       \* names per growth / decline list of a paragraph
MaxExtra == 1       \* extra occurrences of one indicator label in a document

-----------------------------------------------------------------------------
(* Reference data *)

LIST_OF_INDUSTRIES ==
    << "Textile Mills",
       "Primary Metals",
       "Transportation Equipment",
       "Apparel, Leather & Allied Products",
       "Petroleum & Coal Products",
       "Printing & Related Support Activities",
       "Machinery",
       "Computer & Electronic Products",
       "Miscellaneous Manufacturing",
       "Electrical Equipment, Appliances & Components",
       "Plastics & Rubber Products",
       "Paper Products",
       "Furniture & Related Products",
       "Chemical Products",
       "Food, Beverage & Tobacco Products",
       "Fabricated Metal Products",
       "Nonmetallic Mineral Products",
       "Wood Products" >>

LIST_OF_INDICATORS ==
    << "NEW ORDERS",
       "PRODUCTION",
       "EMPLOYMENT",
       "SUPPLIER DELIVERIES",
       "INVENTORIES\n",
       "CUSTOMERS' INVENTORIES",
       "PRICES",
       "BACKLOG OF ORDERS",
       "NEW EXPORT ORDERS",
       "IMPORTS",
       "BUYING POLICY" >>

-----------------------------------------------------------------------------
(* Python built-ins on str and list *)

Range(seq) == { seq[k] : k \in 1..Len(seq) }

MinOf(S) == CHOOSE m \in S : \A n \in S : m <= n

MaxOf(S) == CHOOSE m \in S : \A n \in S : m >= n

\* the positions at which sub occurs in s
Occurrences(s, sub) ==
    { k \in 1..(Len(s) - Len(sub) + 1) : SubSeq(s, k, k + Len(sub) - 1) = sub }

\* sub in s
Contains(s, sub) == Occurrences(s, sub) # {}

\* 1-based s.find(sub), 0 when absent
Find(s, sub) ==
    LET occ == Occurrences(s, sub)
    IN IF occ = {} THEN 0 ELSE MinOf(occ)

\* s.split(sep): every non-overlapping occurrence, left to right
RECURSIVE Split(_, _)
Split(s, sep) ==
    LET k == Find(s, sep)
    IN IF k = 0 THEN << s >>
       ELSE << SubSeq(s, 1, k - 1) >>
            \o Split(SubSeq(s, k + Len(sep), Len(s)), sep)

\* s.replace(old, new)
RECURSIVE Replace(_, _, _)
Replace(s, old, new) ==
    LET k == Find(s, old)
    IN IF k = 0 THEN s
       ELSE SubSeq(s, 1, k - 1) \o new
            \o Replace(SubSeq(s, k + Len(old), Len(s)), old, new)

Whitespace == { " ", "\n", "\t", "\r" }

\* s.strip()
Strip(s) ==
    LET keep == { k \in 1..Len(s) : SubSeq(s, k, k) \notin Whitespace }
    IN IF keep = {} THEN "" ELSE SubSeq(s, MinOf(keep), MaxOf(keep))

\* lst[-n]; the caller checks Len(lst) >= n (IndexError otherwise)
FromEnd(lst, n) == lst[Len(lst) - n + 1]

\* OrderedDict: a sequence of entries; assignment to an existing key
\* replaces the value in place, a new key is appended
DictKeys(d) == [ k \in 1..Len(d) |-> d[k].key ]

DictHas(d, key) == \E k \in 1..Len(d) : d[k].key = key

DictGet(d, key) == d[CHOOSE k \in 1..Len(d) : d[k].key = key].value

DictSet(d, key, value) ==
    IF DictHas(d, key)
    THEN [ k \in 1..Len(d) |->
             IF d[k].key = key THEN [key |-> key, value |-> value] ELSE d[k] ]
    ELSE Append(d, [key |-> key, value |-> value])

-----------------------------------------------------------------------------
(* get_list_of_industries_from_sentence *)

\* variant: a found industry is put in front of the ones found so far
RECURSIVE scan_industries_reversed(_, _)
scan_industries_reversed(sent, k) ==
    IF k > Len(LIST_OF_INDUSTRIES) THEN << >>
    ELSE scan_industries_reversed(sent, k + 1)
         \o (IF Contains(sent, LIST_OF_INDUSTRIES[k])
             THEN << LIST_OF_INDUSTRIES[k] >> ELSE << >>)

RECURSIVE scan_industries(_, _)
scan_industries(sent, k) ==
    IF k > Len(LIST_OF_INDUSTRIES) THEN << >>
    ELSE (IF Contains(sent, LIST_OF_INDUSTRIES[k])
          THEN << LIST_OF_INDUSTRIES[k] >> ELSE << >>)
         \o scan_industries(sent, k + 1)

\* variant: the names of a semicolon list are not stripped
get_list_of_industries_unstripped(sent) ==
    IF Contains(sent, ":")
    THEN LET industries == Split(sent, ":")[2]
         IN IF Contains(industries, ";")
            THEN LET segs == Split(industries, ";")
                 IN [ k \in 1..Len(segs) |->
                        Replace(Replace(segs[k], " and ", ""), "\n", " ") ]
            ELSE << Strip(Replace(industries, "\n", " ")) >>
    ELSE scan_industries(sent, 1)

get_list_of_industries_from_sentence(sent) ==
    IF Contains(sent, ":")
    THEN LET industries == Split(sent, ":")[2]
         IN IF Contains(industries, ";")
            THEN LET segs == Split(industries, ";")
                 IN [ k \in 1..Len(segs) |->
                        Strip(Replace(Replace(segs[k], " and ", ""), "\n", " ")) ]
            ELSE << Strip(Replace(industries, "\n", " ")) >>
    ELSE scan_industries(sent, 1)

-----------------------------------------------------------------------------
(* create_dict_of_industries and process_paragraph *)

\* one of the three for-loops of create_dict_of_industries: entry k of lst
\* gets the value index, which then moves by step
RECURSIVE assign_ranks(_, _, _, _, _)
assign_ranks(d, lst, k, index, step) ==
    IF k > Len(lst) THEN d
    ELSE assign_ranks(DictSet(d, lst[k], index), lst, k + 1, index + step, step)

\* variant: the loop over the neutral industries is left out
create_dict_without_neutral(list_growth, list_neutral, list_decrease) ==
    LET d1 == assign_ranks(<< >>, list_growth, 1, Len(list_growth), -1)
    IN assign_ranks(d1, list_decrease, 1, -1, -1)

create_dict_of_industries(list_growth, list_neutral, list_decrease) ==
    LET d1 == assign_ranks(<< >>, list_growth, 1, Len(list_growth), -1)
        d2 == assign_ranks(d1, list_neutral, 1, 0, 0)
    IN assign_ranks(d2, list_decrease, 1, -1, -1)

\* the list comprehension of process_paragraph
neutral_industries(growth, decrease) ==
    LET keep(industry) == /\ industry \notin Range(growth)
                          /\ industry \notin Range(decrease)
    IN SelectSeq(LIST_OF_INDUSTRIES, keep)

\* the outcome of a call: sentences[1] raises IndexError when the text has
\* no period
process_paragraph(p) ==
    LET sentences == Split(p, ".")
    IN IF Len(sentences) < 2
       THEN [status |-> "IndexError", growth |-> << >>, decrease |-> << >>,
             neutral |-> << >>, dict |-> << >>]
       ELSE LET growth == get_list_of_industries_from_sentence(sentences[1])
                decrease == get_list_of_industries_from_sentence(sentences[2])
                neutral == neutral_industries(growth, decrease)
            IN [status |-> "returned", growth |-> growth,
                decrease |-> decrease, neutral |-> neutral,
                dict |-> create_dict_of_industries(growth, neutral, decrease)]

-----------------------------------------------------------------------------
(* export_dict_to_excel: one worksheet per entry, one row per industry *)

state_label(index) ==
    IF index > 0 THEN "Growth"
    ELSE IF index = 0 THEN "Neutral" ELSE "Contraction"

export_dict_to_excel(d) ==
    [ k \in 1..Len(d) |->
        [ sheet |-> d[k].key,
          rows |-> [ r \in 1..Len(d[k].value) |->
                       << d[k].value[r].key,
                          state_label(d[k].value[r].value),
                          d[k].value[r].value >> ] ] ]

-----------------------------------------------------------------------------
(* The segmentation loop of the main script *)

LastIndex == Len(LIST_OF_INDICATORS) - 1

\* variant: the index is compared with the length of the list
paragraph_offset_off_by_one(ii) == IF ii = LastIndex + 1 THEN 3 ELSE 2

\* which piece, counted from the end, is the paragraph at iteration ii
paragraph_offset(ii) == IF ii = LastIndex THEN 3 ELSE 2

\* process_paragraph was not reached
NoCall == [status |-> "IndexError", growth |-> << >>, decrease |-> << >>,
           neutral |-> << >>, dict |-> << >>]

\* the body of the for-loop at iteration ii (Python index), started with the
\* list prev; a failed subscript leaves the assignments made before it
loop_body(prev, ii, old_paragraph) ==
    IF Len(prev) < 2
    THEN [status |-> "IndexError", previous_text |-> prev,
          paragraph |-> old_paragraph, call |-> NoCall]
    ELSE LET splitted_text == Split(prev[2], LIST_OF_INDICATORS[ii + 1])
             pieces == Split(splitted_text[1], ".\n")
         IN IF Len(pieces) < paragraph_offset(ii)
            THEN [status |-> "IndexError", previous_text |-> prev,
                  paragraph |-> old_paragraph, call |-> NoCall]
            ELSE LET para == FromEnd(pieces, paragraph_offset(ii))
                     call == process_paragraph(para)
                 IN [status |-> call.status, previous_text |-> splitted_text,
                     paragraph |-> para, call |-> call]

-----------------------------------------------------------------------------
(* Inputs *)

\* classifier inputs: concatenations of at most MaxPieces pieces
Pieces == { ":", ";", " and ", "\n", " ", "Machinery", "Wood Products" }

RECURSIVE Texts(_)
Texts(n) ==
    IF n = 0 THEN { "" }
    ELSE Texts(n - 1) \cup { t \o p : t \in Texts(n - 1), p \in Pieces }

\* names a report sentence may list; the last one is not a fixed industry
Names == { "Textile Mills", "Primary Metals", "Machinery", "Real Estate" }

RECURSIVE NameLists(_)
NameLists(n) ==
    IF n = 0 THEN { << >> }
    ELSE NameLists(n - 1)
         \cup { Append(l, x) : l \in NameLists(n - 1), x \in Names }

RECURSIVE Join(_, _, _)
Join(lst, sep, last_sep) ==
    IF Len(lst) = 0 THEN ""
    ELSE IF Len(lst) = 1 THEN lst[1]
    ELSE IF Len(lst) = 2 THEN lst[1] \o last_sep \o lst[2]
    ELSE lst[1] \o sep \o Join(Tail(lst), sep, last_sep)

Styles == { "plain", "and", "nocolon", "noperiod" }

\* the sentence of a report for the industries lst: a colon and the names,
\* or a sentence without colon when there is none
ListSentence(intro, none, lst, sep, last_sep) ==
    IF Len(lst) = 0 THEN none ELSE intro \o Join(lst, sep, last_sep)

\* a paragraph naming the growth industries g and the decline industries d
MakeParagraph(g, d, style) ==
    CASE style = "plain" ->
           ListSentence("reported growth: ", "no growth", g, "; ", "; ")
           \o ". "
           \o ListSentence("reported decrease: ", "no decrease", d, "; ", "; ")
           \o "."
      [] style = "and" ->
           ListSentence("growth in\norder are: ", "No industry grew", g,
                        "; ", ";\n and ")
           \o ". "
           \o ListSentence("decrease are: ", "None\ndecreased", d,
                           ";\n", "; and ")
           \o "."
      [] style = "nocolon" ->
           "growth in " \o Join(g, ", ", " and ")
           \o ". decrease in " \o Join(d, ", ", " and ") \o "."
      [] style = "noperiod" ->
           ListSentence("growth: ", "no growth", g, "; ", "; ")

Paragraphs ==
    { MakeParagraph(g, d, style) :
        g \in NameLists(MaxNames), d \in NameLists(MaxNames), style \in Styles }

\* documents: every label is followed by heading_end, an introduction and the
\* paragraph of its section; a footer may precede the last label, one label
\* may be missing, and one label may occur again, in its own section or in a
\* closing summary
SectionParagraphs ==
    << "grew: Machinery; and Wood Products. fell: Paper Products",
       "grew: Textile Mills. No industries fell",
       "grew: Machinery. fell: Machinery; Primary Metals" >>

HeadingEnds == { " ", "\n" }

Footers == { "", "Footer.\n", "Foot. note.\n" }

RECURSIVE Repeat(_, _)
Repeat(s, n) == IF n = 0 THEN "" ELSE s \o Repeat(s, n - 1)

Section(k, doc) ==
    (IF doc.missing = k THEN "" ELSE LIST_OF_INDICATORS[k])
    \o doc.heading_end
    \o (IF doc.extra = k /\ doc.place = "section"
        THEN Repeat("see " \o LIST_OF_INDICATORS[k] \o " ", doc.count) ELSE "")
    \o "Intro.\n"
    \o (IF k = Len(LIST_OF_INDICATORS) THEN ""
        ELSE SectionParagraphs[((k + doc.seed) % Len(SectionParagraphs)) + 1]
             \o ".\n")
    \o (IF k = LastIndex THEN doc.footer ELSE "")

RECURSIVE Sections(_, _)
Sections(k, doc) ==
    IF k > Len(LIST_OF_INDICATORS) THEN ""
    ELSE Section(k, doc) \o Sections(k + 1, doc)

MakeDocument(doc) ==
    "ISM Report\n" \o Sections(1, doc)
    \o (IF doc.extra > 0 /\ doc.place = "summary"
        THEN Repeat("Summary " \o LIST_OF_INDICATORS[doc.extra] \o " ",
                    doc.count)
        ELSE "")

Labels == 1..Len(LIST_OF_INDICATORS)

DocumentShapes ==
    { doc \in [ heading_end : HeadingEnds, footer : Footers,
                seed : 0..(Len(SectionParagraphs) - 1),
                missing : {0} \cup Labels, extra : {0} \cup Labels,
                place : { "section", "summary" }, count : 0..MaxExtra ] :
        /\ (doc.extra = 0) = (doc.count = 0)
        /\ doc.extra = 0 => doc.place = "section"
        /\ doc.missing # 0 => doc.extra = 0 }

Documents == { MakeDocument(doc) : doc \in DocumentShapes }

-----------------------------------------------------------------------------
(* The classifier alone *)

Unused == "-"

NoSentence == sentence = Unused /\ list_industries = << >>

NoParagraph ==
    /\ para_text = Unused
    /\ list_industries_growth = << >>
    /\ list_industries_decrease = << >>
    /\ list_industries_neutral = << >>
    /\ processed_paragraph = << >>

NoDocument ==
    /\ text = Unused
    /\ previous_text = << >>
    /\ i = 0
    /\ paragraph = Unused
    /\ industries_dict = << >>
    /\ workbook = << >>

sentence_vars == <<sentence, list_industries>>

paragraph_vars == <<para_text, list_industries_growth,
                    list_industries_decrease, list_industries_neutral,
                    processed_paragraph>>

document_vars == <<text, previous_text, i, paragraph, industries_dict,
                   workbook>>

InitSentence ==
    /\ pc = "classify"
    /\ sentence \in Texts(MaxPieces)
    /\ list_industries = << >>
    /\ NoParagraph
    /\ NoDocument

Classify ==
    /\ pc = "classify"
    /\ list_industries' = get_list_of_industries_from_sentence(sentence)
    /\ pc' = "classified"
    /\ UNCHANGED <<sentence, paragraph_vars, document_vars>>

NextSentence == Classify

SpecSentence == InitSentence /\ [][NextSentence]_vars

-----------------------------------------------------------------------------
(* One call of process_paragraph *)

InitParagraph ==
    /\ pc = "process"
    /\ para_text \in Paragraphs
    /\ list_industries_growth = << >>
    /\ list_industries_decrease = << >>
    /\ list_industries_neutral = << >>
    /\ processed_paragraph = << >>
    /\ NoSentence
    /\ NoDocument

ProcessParagraph ==
    /\ pc = "process"
    /\ LET call == process_paragraph(para_text)
       IN /\ call.status = "returned"
          /\ list_industries_growth' = call.growth
          /\ list_industries_decrease' = call.decrease
          /\ list_industries_neutral' = call.neutral
          /\ processed_paragraph' = call.dict
    /\ pc' = "returned"
    /\ UNCHANGED <<para_text, sentence_vars, document_vars>>

ProcessParagraphIndexError ==
    /\ pc = "process"
    /\ process_paragraph(para_text).status = "IndexError"
    /\ pc' = "IndexError"
    /\ UNCHANGED <<paragraph_vars, sentence_vars, document_vars>>

NextParagraph == ProcessParagraph \/ ProcessParagraphIndexError

SpecParagraph == InitParagraph /\ [][NextParagraph]_vars

-----------------------------------------------------------------------------
(* The main script on one document *)

Init ==
    /\ pc = "split"
    /\ text \in Documents
    /\ previous_text = << >>
    /\ i = 0
    /\ paragraph = Unused
    /\ industries_dict = << >>
    /\ workbook = << >>
    /\ NoSentence
    /\ NoParagraph

\* previous_text = text.split(LIST_OF_INDICATORS[0])
SplitFirstLabel ==
    /\ pc = "split"
    /\ previous_text' = Split(text, LIST_OF_INDICATORS[1])
    /\ pc' = "loop"
    /\ UNCHANGED <<text, i, paragraph, industries_dict, workbook,
                   sentence_vars, paragraph_vars>>

\* one iteration of the for-loop that runs to its end
LoopIteration ==
    /\ pc = "loop"
    /\ i < LastIndex
    /\ LET step == loop_body(previous_text, i + 1, paragraph)
       IN /\ step.status = "returned"
          /\ i' = i + 1
          /\ previous_text' = step.previous_text
          /\ paragraph' = step.paragraph
          /\ para_text' = step.paragraph
          /\ list_industries_growth' = step.call.growth
          /\ list_industries_decrease' = step.call.decrease
          /\ list_industries_neutral' = step.call.neutral
          /\ processed_paragraph' = step.call.dict
          /\ industries_dict' =
                DictSet(industries_dict, LIST_OF_INDICATORS[i + 1],
                        step.call.dict)
    /\ UNCHANGED <<pc, text, workbook, sentence_vars>>

\* one iteration that a subscript out of range aborts
LoopIterationIndexError ==
    /\ pc = "loop"
    /\ i < LastIndex
    /\ LET step == loop_body(previous_text, i + 1, paragraph)
       IN /\ step.status = "IndexError"
          /\ i' = i + 1
          /\ previous_text' = step.previous_text
          /\ paragraph' = step.paragraph
    /\ pc' = "IndexError"
    /\ UNCHANGED <<text, industries_dict, workbook, sentence_vars,
                   paragraph_vars>>

\* export_dict_to_excel(industries_dict, output_filename)
Export ==
    /\ pc = "loop"
    /\ i = LastIndex
    /\ workbook' = export_dict_to_excel(industries_dict)
    /\ pc' = "done"
    /\ UNCHANGED <<text, previous_text, i, paragraph, industries_dict,
                   sentence_vars, paragraph_vars>>

Next ==
    \/ SplitFirstLabel
    \/ LoopIteration
    \/ LoopIterationIndexError
    \/ Export

Spec == Init /\ [][Next]_vars

-----------------------------------------------------------------------------
(* Properties of the classifier, checked under SpecSentence *)

\* everything after the first colon
AfterFirstColon(s) == SubSeq(s, Find(s, ":") + 1, Len(s))

\* the text between the first colon and the next one (or the end)
FirstColonField(s) ==
    LET rest == AfterFirstColon(s)
    IN IF Contains(rest, ":") THEN SubSeq(rest, 1, Find(rest, ":") - 1)
       ELSE rest

\* the segments of t between its semicolons, in textual order
SegmentsOf(t) ==
    LET semis == Occurrences(t, ";")
        nth(j) == CHOOSE q \in semis :
                     Cardinality({ r \in semis : r < q }) = j - 1
    IN [ j \in 1..(Cardinality(semis) + 1) |->
           SubSeq(t, IF j = 1 THEN 1 ELSE nth(j - 1) + 1,
                     IF j = Cardinality(semis) + 1 THEN Len(t)
                     ELSE nth(j) - 1) ]

NormalizeName(seg) == Strip(Replace(Replace(seg, " and ", ""), "\n", " "))

NormalizeSingleName(seg) == Strip(Replace(seg, "\n", " "))

ReferenceNames(s) ==
    LET t == AfterFirstColon(s)
        segs == IF Contains(t, ";") THEN SegmentsOf(t) ELSE << t >>
    IN [ j \in 1..Len(segs) |-> NormalizeName(segs[j]) ]

AmendedReferenceNames(s) ==
    LET t == FirstColonField(s)
    IN IF Contains(t, ";")
       THEN [ j \in 1..Len(SegmentsOf(t)) |-> NormalizeName(SegmentsOf(t)[j]) ]
       ELSE << NormalizeSingleName(t) >>

\* C6 as stated: for a fragment with a colon the classifier returns the
\* segments of everything after the first colon (split on semicolons when
\* there is one, the whole text otherwise), each normalized by removing
\* " and ", turning newlines into spaces and stripping, in textual order.
C6_ReferenceAlgorithm ==
    (pc = "classified" /\ Contains(sentence, ":"))
        => list_industries = ReferenceNames(sentence)

\* C6 amended: the name list is the text between the first colon and the
\* next colon (or the end); with a semicolon every segment is normalized by
\* removing " and ", turning newlines into spaces and stripping; without
\* one the single segment only has its newlines turned into spaces and is
\* stripped, " and " is kept.
C6_AmendedAlgorithm ==
    (pc = "classified" /\ Contains(sentence, ":"))
        => list_industries = AmendedReferenceNames(sentence)

C6_Witness ==
    /\ pc = "classified"
    /\ Contains(sentence, ":")
    /\ Contains(sentence, ";")
    /\ Contains(sentence, " and ")
    /\ Len(list_industries) >= 2
    /\ "Machinery" \in Range(list_industries)

-----------------------------------------------------------------------------
(* Properties of process_paragraph, checked under SpecParagraph *)

FixedIndustries == Range(LIST_OF_INDUSTRIES)

ReportKeys == Range(DictKeys(processed_paragraph))

KeysDistinct(d) ==
    \A m, n \in 1..Len(d) : d[m].key = d[n].key => m = n

\* C1 as stated: the key set of every returned IndicatorReport is exactly
\* the set of the 18 fixed industries, each a key once.
C1_KeysAreFixedSet ==
    pc = "returned"
        => /\ ReportKeys = FixedIndustries
           /\ Len(processed_paragraph) = Len(LIST_OF_INDUSTRIES)

\* C1 amended: the keys of every returned IndicatorReport are pairwise
\* distinct and are exactly the 18 fixed industries together with every
\* name extracted from the growth and decline sentences; the key set is the
\* fixed set exactly when every extracted name is a fixed industry.
C1_KeysAreFixedPlusExtracted ==
    pc = "returned"
        => /\ KeysDistinct(processed_paragraph)
           /\ ReportKeys = FixedIndustries
                            \cup Range(list_industries_growth)
                            \cup Range(list_industries_decrease)
           /\ (ReportKeys = FixedIndustries)
                <=> (Range(list_industries_growth)
                       \cup Range(list_industries_decrease)
                          \subseteq FixedIndustries)

C1_Witness ==
    /\ pc = "returned"
    /\ "Real Estate" \in Range(list_industries_growth)
    /\ "Machinery" \in Range(list_industries_decrease)
    /\ Len(processed_paragraph) = Len(LIST_OF_INDUSTRIES) + 1

\* C2: in every returned IndicatorReport the sign of a rank tells the list
\* of its industry: positive iff in the growth list, negative iff in the
\* decline list, zero iff in neither.
C2_RankSignMatchesList ==
    pc = "returned"
        => \A k \in 1..Len(processed_paragraph) :
             LET industry == processed_paragraph[k].key
                 rank == processed_paragraph[k].value
             IN /\ (rank > 0) <=> (industry \in Range(list_industries_growth))
                /\ (rank < 0) <=> (industry \in Range(list_industries_decrease))
                /\ (rank = 0) <=>
                      /\ industry \notin Range(list_industries_growth)
                      /\ industry \notin Range(list_industries_decrease)

\* C3: the k-th industry of a growth list of length g has rank g - k + 1
\* and the k-th industry of the decline list has rank -k; the paragraph
\* "reported growth: Textile Mills; Primary Metals. reported decrease:
\* Machinery." gives 2, 1, -1 and 0 for the other 15 industries.
C3_RanksFollowMentionOrder ==
    pc = "returned"
        => /\ \A k \in 1..Len(list_industries_growth) :
                DictGet(processed_paragraph, list_industries_growth[k])
                   = Len(list_industries_growth) - k + 1
           /\ \A k \in 1..Len(list_industries_decrease) :
                DictGet(processed_paragraph, list_industries_decrease[k]) = -k
           /\ para_text = "reported growth: Textile Mills; Primary Metals. reported decrease: Machinery."
                => /\ DictGet(processed_paragraph, "Textile Mills") = 2
                   /\ DictGet(processed_paragraph, "Primary Metals") = 1
                   /\ DictGet(processed_paragraph, "Machinery") = -1
                   /\ Cardinality({ k \in 1..Len(processed_paragraph) :
                                      processed_paragraph[k].value = 0 }) = 15

\* C5: the keys of every returned IndicatorReport are, in order, the growth
\* list, the neutral list and the decline list, where the neutral list is
\* the fixed list without the names of the growth and decline lists, in
\* fixed-list order.
C5_InsertionOrder ==
    pc = "returned"
        => /\ DictKeys(processed_paragraph)
                = list_industries_growth \o list_industries_neutral
                     \o list_industries_decrease
           /\ Range(list_industries_neutral)
                = FixedIndustries \ (Range(list_industries_growth)
                                       \cup Range(list_industries_decrease))
           /\ \A m, n \in 1..Len(list_industries_neutral) :
                m < n => \E a, b \in 1..Len(LIST_OF_INDUSTRIES) :
                            /\ a < b
                            /\ LIST_OF_INDUSTRIES[a] = list_industries_neutral[m]
                            /\ LIST_OF_INDUSTRIES[b] = list_industries_neutral[n]

\* C10: process_paragraph never returns an IndicatorReport when a name is
\* in more than one of the three lists; it fails instead.
C10_DuplicateNameFails ==
    pc = "returned"
        => /\ Range(list_industries_growth)
                \cap Range(list_industries_decrease) = {}
           /\ Range(list_industries_neutral)
                \cap (Range(list_industries_growth)
                        \cup Range(list_industries_decrease)) = {}

-----------------------------------------------------------------------------
(* Properties of the segmentation loop, checked under Spec *)

\* every label occurs once in the document, in the fixed order
WellFormedDocument ==
    /\ \A k \in Labels :
         Cardinality(Occurrences(text, LIST_OF_INDICATORS[k])) = 1
    /\ \A k \in 1..LastIndex :
         Find(text, LIST_OF_INDICATORS[k]) < Find(text, LIST_OF_INDICATORS[k + 1])

\* C4: for a well-formed document the FullReport handed to the exporter has
\* one IndicatorReport per label of LIST_OF_INDICATORS, in the fixed order,
\* and the workbook one sheet per label, the last label included.
C4_OneReportPerIndicator ==
    (pc = "done" /\ WellFormedDocument)
        => /\ DictKeys(industries_dict) = LIST_OF_INDICATORS
           /\ [ k \in 1..Len(workbook) |-> workbook[k].sheet ]
                = LIST_OF_INDICATORS

BeforeFirst(s, label) == SubSeq(s, 1, Find(s, label) - 1)

AfterFirst(s, label) == SubSeq(s, Find(s, label) + Len(label), Len(s))

\* C8: the initial split and every iteration split the remaining text at
\* the first occurrence of the label only: the verbose segment is the text
\* before it and the next cursor is everything after it.
C8_SplitAtFirstOccurrenceOnly ==
    [][ /\ (pc = "split" /\ Contains(text, LIST_OF_INDICATORS[1]))
            => previous_text'[2] = AfterFirst(text, LIST_OF_INDICATORS[1])
        /\ (/\ pc = "loop" /\ pc' = "loop" /\ i' = i + 1
            /\ Contains(previous_text[2], LIST_OF_INDICATORS[i' + 1]))
            => /\ previous_text'[1]
                    = BeforeFirst(previous_text[2], LIST_OF_INDICATORS[i' + 1])
               /\ previous_text'[2]
                    = AfterFirst(previous_text[2], LIST_OF_INDICATORS[i' + 1])
      ]_vars

\* after iteration i the entry written last is the one of the indicator at
\* Python index i - 1, and previous_text[0] holds its verbose segment
StoredUnder == LIST_OF_INDICATORS[i]

VerbosePieces == Split(previous_text[1], ".\n")

====
